---- MODULE Spec2Model ----
(***************************************************************************)
(* A model of the company-data pipeline:                                   *)
(*   - CSVHandler      (src/src/data_loader/csv_handler.py)                *)
(*   - CompanySearcher (src/src/webscraper/search.py)                      *)
(*                                                                         *)
(* Text is modelled as a sequence of one-character strings, so that        *)
(* strip, upper/lower-casing, the regular expressions and the substring    *)
(* test of the blocklist are computed character by character.              *)
(* Python's None / a Polars null is the value None.                        *)
(***************************************************************************)
EXTENDS Integers, Sequences, FiniteSets, TLC

VARIABLES
    \* ---- CompanySearcher ----
    checked_url,     \* the argument of the _is_valid_domain call (None: no such call)
    checked_result,  \* how that call ended
    response,        \* what requests.post does during the search_company call
    search_result,   \* how the search_company call ended
    posts,           \* number of requests.post calls made
    \* ---- clean_data / validate_data_types called on a DataFrame ----
    df,              \* the caller's DataFrame
    validation,      \* outcome of validate_data_types(df)
    cleaned,         \* clean_data(df)
    recleaned,       \* clean_data(clean_data(df))
    \* ---- one CSVHandler instance and the file its path names ----
    suffix,          \* self.file_path.suffix.lower()
    disk,            \* the file at self.file_path: Missing or the parsed CSV text
    data,            \* self.data
    load_result,     \* how the last read_and_validate call ended
        ever_loaded,     \* a read_and_validate call has succeeded on this instance
    records_result,  \* how the last get_company_records call ended
    save_result,     \* how the last save_processed_data call ended
    output           \* the file at output_path: Missing or the written table

searchVars == <<checked_url, checked_result, response, search_result, posts>>
cleanVars == <<df, validation, cleaned, recleaned>>
handlerVars == <<suffix, disk, data, load_result, ever_loaded,
                 records_result, save_result, output>>
vars == <<searchVars, cleanVars, handlerVars>>

(***************************************************************************)
(* Bounds of the model.                                                    *)
(***************************************************************************)
MaxResults == 3   \* longest "organic" list the endpoint answers with
MaxRows == 2      \* most rows of a DataFrame / CSV file

(***************************************************************************)
(* Text helpers.                                                           *)
(***************************************************************************)
None == <<"None">>

Uppers == <<"A","B","C","D","E","F","G","H","I","J","K","L","M",
            "N","O","P","Q","R","S","T","U","V","W","X","Y","Z">>
Lowers == <<"a","b","c","d","e","f","g","h","i","j","k","l","m",
            "n","o","p","q","r","s","t","u","v","w","x","y","z">>
Digits == {"0","1","2","3","4","5","6","7","8","9"}
Whitespace == {" "}

Range(s) == {s[i] : i \in DOMAIN s}

IsUpper(c) == \E i \in DOMAIN Uppers : Uppers[i] = c
IsLower(c) == \E i \in DOMAIN Lowers : Lowers[i] = c
LowerChar(c) == IF IsUpper(c) THEN Lowers[CHOOSE i \in DOMAIN Uppers : Uppers[i] = c] ELSE c
UpperChar(c) == IF IsLower(c) THEN Uppers[CHOOSE i \in DOMAIN Lowers : Lowers[i] = c] ELSE c

\* str.lower() / str.upper()
Lower(s) == [i \in DOMAIN s |-> LowerChar(s[i])]
Upper(s) == [i \in DOMAIN s |-> UpperChar(s[i])]

\* `sub in s` of Python: sub occurs in s as a contiguous run of characters
Contains(s, sub) ==
    \E i \in 1..(Len(s) + 1) :
        /\ i + Len(sub) - 1 <= Len(s)
        /\ SubSeq(s, i, i + Len(sub) - 1) = sub

\* s.find(c): the first index of character c in s, 0 when it does not occur
Find(s, c) ==
    IF c \in Range(s) THEN CHOOSE i \in DOMAIN s : s[i] = c /\ \A j \in 1..(i-1) : s[j] # c
    ELSE 0

(***************************************************************************)
(* CompanySearcher (src/src/webscraper/search.py)                          *)
(***************************************************************************)
HTTP_OK == 200

excluded_domains ==
    { <<"l","i","n","k","e","d","i","n",".","c","o","m">>,
      <<"f","a","c","e","b","o","o","k",".","c","o","m">>,
      <<"t","w","i","t","t","e","r",".","c","o","m">>,
      <<"i","n","s","t","a","g","r","a","m",".","c","o","m">>,
      <<"b","l","o","o","m","b","e","r","g",".","c","o","m">> }

\* urllib.parse: the characters a scheme may hold
SchemeChars == Range(Uppers) \cup Range(Lowers) \cup Digits \cup {"+", "-", "."}

\* urllib.parse.urlsplit, as far as the network location goes: the scheme is
\* what precedes the first ":" when that is made of scheme characters only and
\* starts with a letter; a network location is present only when what follows
\* starts with "//", and runs to the first of "/", "?", "#". An unbalanced
\* square bracket in it raises ValueError("Invalid IPv6 URL").
UrlParse(url) ==
    LET colon == Find(url, ":")
        hasScheme == /\ colon > 1
                     /\ IsUpper(url[1]) \/ IsLower(url[1])
                     /\ \A j \in 1..(colon - 1) : url[j] \in SchemeChars
        rest == IF hasScheme THEN SubSeq(url, colon + 1, Len(url)) ELSE url
        hasNetloc == Len(rest) >= 2 /\ rest[1] = "/" /\ rest[2] = "/"
        after == SubSeq(rest, 3, Len(rest))
        stops == {j \in DOMAIN after : after[j] \in {"/", "?", "#"}}
        stop == IF stops = {} THEN Len(after) + 1
                ELSE CHOOSE j \in stops : \A k \in stops : j <= k
        netloc == IF hasNetloc THEN SubSeq(after, 1, stop - 1) ELSE <<>>
        open == "[" \in Range(netloc)
        close == "]" \in Range(netloc)
    IN  [raised |-> (open /\ ~close) \/ (close /\ ~open), netloc |-> netloc]

\* CompanySearcher._is_valid_domain, with the bare except that returns False
IsValidDomain(url) ==
    LET parsed == UrlParse(url)
    IN  IF parsed.raised THEN FALSE
        ELSE LET domain == Lower(parsed.netloc)
             IN  ~\E excluded \in excluded_domains : Contains(domain, excluded)

\* result.get("link") of one entry of the "organic" list
NoLink == [has_link |-> FALSE, link |-> <<>>]
WithLink(u) == [has_link |-> TRUE, link |-> u]
GetLink(result) == IF result.has_link THEN result.link ELSE None
\* `if link` of Python: None and "" are falsy
Truthy(link) == link # None /\ link # <<>>

\* the loop of search_company over organic[i..]: the first link that is truthy
\* and passes _is_valid_domain, None when the loop runs out
RECURSIVE ScanOrganicFrom(_, _)
ScanOrganicFrom(organic, i) ==
    IF i > Len(organic) THEN None
    ELSE LET link == GetLink(organic[i])
         IN  IF Truthy(link) /\ IsValidDomain(link) THEN link
             ELSE ScanOrganicFrom(organic, i + 1)

ScanOrganic(organic) == ScanOrganicFrom(organic, 1)

\* how a call ends
Returned(v) == [kind |-> "returned", value |-> v]
Raised(e) == [kind |-> "raised", value |-> e]
NotCalled == [kind |-> "not called", value |-> None]

\* what requests.post can do: raise (no connection, timeout, ...) or answer
ConnectionFailed == [kind |-> "exception", status |-> 0, has_organic |-> FALSE, organic |-> <<>>]
Answer(status, has, organic) ==
    [kind |-> "answer", status |-> status, has_organic |-> has, organic |-> organic]

\* CompanySearcher.search_company, given what requests.post does
SearchOutcome(resp) ==
    IF resp.kind = "exception" THEN Raised("ConnectionError")
    ELSE IF resp.status # HTTP_OK THEN Returned(None)
    ELSE LET organic == IF resp.has_organic THEN resp.organic ELSE <<>>
         IN  Returned(ScanOrganic(organic))

\* ---- inputs ----
Https == <<"h","t","t","p","s",":">>
HttpsUpper == <<"H","T","T","P","S",":">>
Slashes == <<"/","/">>
CompanyCom == <<"c","o","m","p","a","n","y",".","c","o","m">>
LinkedinCom == <<"l","i","n","k","e","d","i","n",".","c","o","m">>
LinkedInMixed == <<"w","w","w",".","L","i","n","k","e","d","I","n",".","C","O","M">>
SubFacebook == <<"s","u","b",".","f","a","c","e","b","o","o","k",".","c","o","m">>
ExampleTwitter == <<"e","x","a","m","p","l","e",".","t","w","i","t","t","e","r",".","c","o","m">>
LinkedinCompany == <<"l","i","n","k","e","d","i","n",".","c","o","m","p","a","n","y",".","c","o","m">>
LinkedCom == <<"l","i","n","k","e","d",".","c","o","m">>
BracketHost == <<"[","b","a","d">>
PathCompany == <<"/","c","o","m","p","a","n","y">>
PathTwitter == <<"/","?","u","=","t","w","i","t","t","e","r",".","c","o","m">>
NotAUrl == <<"n","o","t"," ","a"," ","u","r","l">>

Schemes == {<<>>, Https, HttpsUpper}
Hosts == {<<>>, CompanyCom, LinkedinCom, LinkedInMixed, SubFacebook, ExampleTwitter,
          LinkedinCompany, LinkedCom, BracketHost}
Paths == {<<>>, PathCompany, PathTwitter}
Urls == {sch \o sl \o host \o path :
            sch \in Schemes, sl \in {<<>>, Slashes}, host \in Hosts, path \in Paths}
        \cup {NotAUrl}

SearchLinks == { Https \o Slashes \o CompanyCom,
                 Https \o Slashes \o LinkedinCom \o PathCompany,
                 Https \o Slashes \o SubFacebook,
                 HttpsUpper \o Slashes \o LinkedInMixed,
                 Https \o Slashes \o LinkedCom \o PathTwitter,
                 Https \o Slashes \o BracketHost,
                 NotAUrl }
Entries == {NoLink, WithLink(<<>>)} \cup {WithLink(u) : u \in SearchLinks}
SeqsUpTo(S, n) == UNION {[1..k -> S] : k \in 0..n}
OrganicLists == SeqsUpTo(Entries, MaxResults)
Responses == {ConnectionFailed}
             \cup {Answer(st, FALSE, <<>>) : st \in {HTTP_OK, 404, 500}}
             \cup {Answer(st, TRUE, <<>>) : st \in {404}}
             \cup {Answer(HTTP_OK, TRUE, organic) : organic \in OrganicLists}
CompanyNames == {"", "Valid Company"}

NoAnswer == [kind |-> "none", status |-> 0, has_organic |-> FALSE, organic |-> <<>>]

SearchIdle ==
    /\ checked_url = None
    /\ checked_result = NotCalled
    /\ response = NoAnswer
    /\ search_result = NotCalled
    /\ posts = 0

\* the argument of a _is_valid_domain call, or what requests.post is going to
\* do during a search_company call
SearchInit ==
    /\ \/ checked_url \in Urls /\ response = NoAnswer
       \/ checked_url = None /\ response \in Responses
    /\ checked_result = NotCalled
    /\ search_result = NotCalled
    /\ posts = 0

\* a call of _is_valid_domain(checked_url)
CheckDomain ==
    /\ checked_url # None
    /\ checked_result.kind = "not called"
    /\ checked_result' = Returned(IsValidDomain(checked_url))
    /\ UNCHANGED <<checked_url, response, search_result, posts>>

\* a call of search_company(company_name): one requests.post, which does
\* what response says
SearchCompany(company_name) ==
    /\ response.kind # "none"
    /\ search_result.kind = "not called"
    /\ posts' = posts + 1
    /\ search_result' = SearchOutcome(response)
    /\ UNCHANGED <<checked_url, checked_result, response>>

(***************************************************************************)
(* Polars DataFrames, as far as CSVHandler uses them.                      *)
(*                                                                         *)
(* A DataFrame is [columns, dtype, rows]: the set of column names, the     *)
(* dtype of each column ("Utf8" or "Int64") and the sequence of rows, each *)
(* a function from column name to cell. A cell is None (null) or text; a   *)
(* cell of an Int64 column is the decimal numeral of its value, which is   *)
(* also what cast(str) renders.                                            *)
(***************************************************************************)
REQUIRED_COLUMNS ==
    { "Company Name", "Parent Company Name", "Executive First Name",
      "Executive Last Name", "Address", "City", "State", "ZIP Code",
      "Legal Name", "Record Type" }

required_non_null == <<"Company Name", "Address", "City", "State", "ZIP Code">>

MinOf(S) == CHOOSE x \in S : \A y \in S : x <= y
MaxOf(S) == CHOOSE x \in S : \A y \in S : x >= y

AllDigits(s) == \A i \in DOMAIN s : s[i] \in Digits

\* str.strip_chars(): leading and trailing whitespace removed
StripCharsOnce(s) ==
    LET a == IF s # <<>> /\ s[1] \in Whitespace THEN 2 ELSE 1
        b == IF s # <<>> /\ s[Len(s)] \in Whitespace THEN Len(s) - 1 ELSE Len(s)
    IN  SubSeq(s, a, b)
StripChars(s) ==
    LET inked == {i \in DOMAIN s : s[i] \notin Whitespace}
    IN  IF inked = {} THEN <<>> ELSE SubSeq(s, MinOf(inked), MaxOf(inked))

\* str.extract(r'(\d{5})', 1): the leftmost run of 5 digits, null without one
ExtractFirstFiveChars(s) == IF Len(s) >= 5 /\ AllDigits(SubSeq(s, 1, 5)) THEN SubSeq(s, 1, 5) ELSE None
Extract5(s) ==
    LET starts == {i \in 1..(Len(s) - 4) : AllDigits(SubSeq(s, i, i + 4))}
    IN  IF starts = {} THEN None ELSE SubSeq(s, MinOf(starts), MinOf(starts) + 4)

\* str.contains(r'^\d{5}(-\d{4})?$')
MatchesZipFormat(s) ==
    \/ Len(s) = 5 /\ AllDigits(s)
    \/ Len(s) = 10 /\ AllDigits(SubSeq(s, 1, 5)) /\ s[6] = "-" /\ AllDigits(SubSeq(s, 7, 10))

\* ---- pl.scan_csv(path).collect() ----
\* A CSV file is [columns, rows]: the header and the rows of raw fields (text).
\* An empty field is read as null. A column is inferred Int64 when it has a
\* non-empty field and every non-empty field is an integer numeral, and Utf8
\* otherwise; an Int64 cell keeps its value, so leading zeros are gone.
IsIntegerText(s) ==
    \/ s # <<>> /\ AllDigits(s)
    \/ Len(s) >= 2 /\ s[1] = "-" /\ AllDigits(Tail(s))

RECURSIVE DropLeadingZeros(_)
DropLeadingZeros(s) ==
    IF Len(s) > 1 /\ s[1] = "0" THEN DropLeadingZeros(Tail(s)) ELSE s

\* the decimal numeral of the integer a field denotes
Numeral(s) ==
    IF s[1] = "-"
    THEN LET m == DropLeadingZeros(Tail(s)) IN IF m = <<"0">> THEN m ELSE <<"-">> \o m
    ELSE DropLeadingZeros(s)

InferDtype(file, col) ==
    LET fields == {file.rows[i][col] : i \in DOMAIN file.rows} \ {<<>>}
    IN  IF fields # {} /\ \A f \in fields : IsIntegerText(f) THEN "Int64" ELSE "Utf8"

ScanCsv(file) ==
    LET dtype == [col \in file.columns |-> InferDtype(file, col)]
    IN  [ columns |-> file.columns,
          dtype |-> dtype,
          rows |-> [i \in DOMAIN file.rows |->
                      [col \in file.columns |->
                          LET f == file.rows[i][col]
                          IN  IF f = <<>> THEN None
                              ELSE IF dtype[col] = "Int64" THEN Numeral(f)
                              ELSE f]] ]

\* ---- CSVHandler.validate_columns ----
MissingColumns(frame) == REQUIRED_COLUMNS \ frame.columns

\* ---- CSVHandler.validate_data_types ----
\* pl.col(col).is_null().sum()
NullCount(frame, col) == Cardinality({i \in DOMAIN frame.rows : frame.rows[i][col] = None})

RECURSIVE NullFieldsFrom(_, _)
NullFieldsFrom(frame, k) ==
    IF k > Len(required_non_null) THEN <<>>
    ELSE LET col == required_non_null[k]
             count == NullCount(frame, col)
         IN  (IF count > 0 THEN <<[col |-> col, count |-> count]>> ELSE <<>>)
             \o NullFieldsFrom(frame, k + 1)

\* the list null_fields: "<col>: <count>" for each required field with nulls,
\* in the order of required_non_null
NullFieldsFirstOnly(frame) ==
    LET all == NullFieldsFrom(frame, 1) IN IF all = <<>> THEN <<>> ELSE <<Head(all)>>
NullFields(frame) == NullFieldsFrom(frame, 1)

\* the rows the ZIP format filter keeps: a null ZIP gives a null mask and is
\* not kept
InvalidZips(frame) ==
    {i \in DOMAIN frame.rows :
        /\ frame.rows[i]["ZIP Code"] # None
        /\ ~MatchesZipFormat(frame.rows[i]["ZIP Code"])}

\* raises CSVValidationError with null_fields, or returns None after logging
\* a warning when some ZIP codes do not match the format
ValidateDataTypes(frame) ==
    LET null_fields == NullFields(frame)
    IN  IF null_fields # <<>>
        THEN [kind |-> "raised", value |-> "CSVValidationError",
              null_fields |-> null_fields, warned_zips |-> 0]
        ELSE [kind |-> "returned", value |-> "None",
              null_fields |-> <<>>, warned_zips |-> Cardinality(InvalidZips(frame))]

\* ---- CSVHandler.clean_data ----
\* first pass, one cell of a Utf8 column: null stays null, a cell that strips
\* to "" becomes null, any other cell is stripped
StripCell(cell) ==
    IF cell = None THEN None
    ELSE IF StripChars(cell) = <<>> THEN None
    ELSE StripChars(cell)

FirstPass(frame) ==
    [frame EXCEPT !.rows =
        [i \in DOMAIN frame.rows |->
            [col \in frame.columns |->
                IF frame.dtype[col] = "Utf8" THEN StripCell(frame.rows[i][col])
                ELSE frame.rows[i][col]]]]

UpperCell(cell) == IF cell = None THEN None ELSE Upper(cell)
ZipCellMutant(cell) == IF cell = None THEN None ELSE ExtractFirstFiveChars(cell)
ZipCell(cell) == IF cell = None THEN None ELSE Extract5(cell)

\* second pass: State upper-cased (a str expression: Polars rejects a column
\* that is not Utf8), ZIP Code cast to str and reduced to its first 5 digits
SecondPass(frame) ==
    [frame EXCEPT
        !.dtype = [frame.dtype EXCEPT !["ZIP Code"] = "Utf8"],
        !.rows = [i \in DOMAIN frame.rows |->
                    [frame.rows[i] EXCEPT !["State"] = UpperCell(@),
                                          !["ZIP Code"] = ZipCell(@)]]]

FrameOf(table) == [kind |-> "returned", value |-> table]
PolarsError(e) == [kind |-> "raised", value |-> e]

CleanData(frame) ==
    IF ~({"State", "ZIP Code"} \subseteq frame.columns) THEN PolarsError("ColumnNotFoundError")
    ELSE IF frame.dtype["State"] # "Utf8" THEN PolarsError("SchemaError")
    ELSE FrameOf(SecondPass(FirstPass(frame)))

\* ---- inputs: DataFrames handed to validate_data_types / clean_data ----
Acme == <<"A","c","m","e">>
AcmePadded == <<" ","A","c","m","e"," ">>
AcmeIndented == <<" "," ","A","c","m","e">>
Blank == <<" ">>
Empty == <<>>
Zip94105 == <<"9","4","1","0","5">>
ZipPlus4 == <<"9","4","1","0","5","-","1","2","3","4">>
ZipTenDigits == <<"9","4","1","0","5","1","2","3","4","5">>
ZipABC == <<"A","B","C">>
Zip941 == <<"9","4","1">>
ZipPadded == <<" ","1","0","0","0","1"," ">>
ZipLeadingZero == <<"0","2","1","3","4">>
ZipInText == <<"C","A"," ","9","4","1","0","5">>
StateCa == <<"c","a">>
StateNyPadded == <<" ","n","y">>
State12 == <<"1","2">>

BaseRow ==
    [col \in REQUIRED_COLUMNS |->
        CASE col = "Company Name" -> Acme
          [] col = "Parent Company Name" -> <<"P","a","r","e","n","t">>
          [] col = "Executive First Name" -> <<"J","o">>
          [] col = "Executive Last Name" -> <<"D","o","e">>
          [] col = "Address" -> <<"1"," ","S","t">>
          [] col = "City" -> <<"S","F">>
          [] col = "State" -> StateCa
          [] col = "ZIP Code" -> Zip94105
          [] col = "Legal Name" -> <<"L","t","d">>
          [] OTHER -> <<"H","Q">>]

With(row, col, cell) == [row EXCEPT ![col] = cell]

\* rows that differ from BaseRow in one cell, and a row of nulls
FrameRows ==
    {BaseRow}
    \cup {With(BaseRow, "Company Name", c) : c \in {None, Empty, Blank, AcmePadded, AcmeIndented}}
    \cup {With(BaseRow, "Parent Company Name", c) : c \in {None, Empty}}
    \cup {With(BaseRow, "Address", c) : c \in {None}}
    \cup {With(BaseRow, "City", c) : c \in {None}}
    \cup {With(BaseRow, "State", c) : c \in {None, StateNyPadded, State12}}
    \cup {With(BaseRow, "ZIP Code", c) : c \in {None, ZipPlus4, ZipABC, ZipPadded}}
    \cup {[col \in REQUIRED_COLUMNS |-> None]}

\* ZIP Code cells: the examples, and every text of up to 6 characters over a
\* digit, a letter and a hyphen
ZipCells == {Zip94105, ZipPlus4, ZipTenDigits, ZipABC, Zip941, ZipPadded, ZipLeadingZero,
             ZipInText, Empty, Blank}
            \cup SeqsUpTo({"7", "x", "-"}, 6)
ZipRows == {With(BaseRow, "ZIP Code", c) : c \in ZipCells}

\* an Int64 column holds nulls and numerals only
IsNumeral(cell) == cell = None \/ (IsIntegerText(cell) /\ Numeral(cell) = cell)
Dtypes(rows, col) ==
    IF col \in {"State", "ZIP Code"} /\ \A i \in DOMAIN rows : IsNumeral(rows[i][col])
    THEN {"Utf8", "Int64"} ELSE {"Utf8"}

FramesOver(rowLists) ==
    UNION { { [columns |-> REQUIRED_COLUMNS,
               dtype |-> [col \in REQUIRED_COLUMNS |->
                            IF col = "State" THEN ds
                            ELSE IF col = "ZIP Code" THEN dz ELSE "Utf8"],
               rows |-> rows] :
              ds \in Dtypes(rows, "State"), dz \in Dtypes(rows, "ZIP Code") } :
            rows \in rowLists }

DataFrames == FramesOver(SeqsUpTo(FrameRows, MaxRows) \cup {<<r>> : r \in ZipRows})

NoFrame == [columns |-> {}, dtype |-> <<>>, rows |-> <<>>]
NoValidation == [kind |-> "not called", value |-> "None", null_fields |-> <<>>, warned_zips |-> 0]
NoClean == [kind |-> "not called", value |-> NoFrame]

CleanIdle ==
    /\ df = NoFrame
    /\ validation = NoValidation
    /\ cleaned = NoClean
    /\ recleaned = NoClean

CleanInit ==
    /\ df \in DataFrames
    /\ validation = NoValidation
    /\ cleaned = NoClean
    /\ recleaned = NoClean

\* handler.validate_data_types(df)
ValidateDataTypesCall ==
    /\ validation.kind = "not called"
    /\ validation' = ValidateDataTypes(df)
    /\ UNCHANGED <<df, cleaned, recleaned>>

\* cleaned = handler.clean_data(df): with_columns builds a new DataFrame
CleanDataCall ==
    /\ cleaned.kind = "not called"
    /\ cleaned' = CleanData(df)
    /\ UNCHANGED <<df, validation, recleaned>>

\* handler.clean_data(cleaned)
CleanAgainCall ==
    /\ cleaned.kind = "returned"
    /\ recleaned.kind = "not called"
    /\ recleaned' = CleanData(cleaned.value)
    /\ UNCHANGED <<df, validation, cleaned>>


(***************************************************************************)
(* CSVHandler: one instance, the file its path names, the output file.     *)
(***************************************************************************)
\* a file: absent, or the header and the rows of raw fields of a CSV text
Missing == [exists |-> FALSE, columns |-> {}, rows |-> <<>>]
CsvFile(columns, rows) == [exists |-> TRUE, columns |-> columns, rows |-> rows]

\* self.data: None, or a DataFrame
NoneData == [is_none |-> TRUE, frame |-> NoFrame]
Loaded(frame) == [is_none |-> FALSE, frame |-> frame]

\* CompanyRecord(...) of one row of self.data
CompanyRecord(row) ==
    [ company_name |-> row["Company Name"],
      parent_company_name |-> row["Parent Company Name"],
      executive_first_name |-> row["Executive First Name"],
      executive_last_name |-> row["Executive Last Name"],
      address |-> row["Address"],
      city |-> row["City"],
      state |-> row["State"],
      zip_code |-> row["ZIP Code"],
      legal_name |-> row["Legal Name"],
      record_type |-> row["Record Type"] ]

\* the loop of get_company_records over rows[i..]: a row whose conversion
\* raises (a key it lacks) is logged and skipped
RECURSIVE RecordsFrom(_, _)
RecordsFrom(rows, i) ==
    IF i > Len(rows) THEN <<>>
    ELSE (IF REQUIRED_COLUMNS \subseteq DOMAIN rows[i] THEN <<CompanyRecord(rows[i])>> ELSE <<>>)
         \o RecordsFrom(rows, i + 1)

\* CSVHandler.get_company_records, given self.data
GetCompanyRecordsUnguarded(d) == Returned(RecordsFrom(d.frame.rows, 1))
GetCompanyRecordsOutcome(d) ==
    IF d.is_none THEN Raised("ValueError")
    ELSE IF \E i \in DOMAIN d.frame.rows : "Company Name" \notin DOMAIN d.frame.rows[i]
         THEN Raised("KeyError")
    ELSE Returned(RecordsFrom(d.frame.rows, 1))

\* CSVHandler.save_processed_data, given self.data
SaveOutcome(d) == IF d.is_none THEN Raised("ValueError") ELSE Returned(None)

\* CSVHandler.read_and_validate, given the suffix of the path and the file
\* there: the exception the try block ends with (logged and re-raised), or
\* the cleaned DataFrame
ReadAndValidateOutcome(sfx, file) ==
    IF ~file.exists THEN Raised("FileNotFoundError")
    ELSE IF sfx # ".csv" THEN Raised("ValueError")
    ELSE LET frame == ScanCsv(file)
         IN  IF MissingColumns(frame) # {} THEN Raised("CSVValidationError")
             ELSE IF ValidateDataTypes(frame).kind = "raised" THEN Raised("CSVValidationError")
             ELSE LET cleaned_df == CleanData(frame)
                  IN  IF cleaned_df.kind = "raised" THEN Raised(cleaned_df.value)
                      ELSE Returned(cleaned_df.value)

\* ---- inputs: CSV files ----
\* rows of raw fields that differ from BaseRow in one field; an empty field
\* is what a null is written as
CsvRows ==
    {BaseRow}
    \cup {With(BaseRow, "Company Name", c) : c \in {Empty, Blank, AcmePadded}}
    \cup {With(BaseRow, "Parent Company Name", c) : c \in {Empty}}
    \cup {With(BaseRow, "City", c) : c \in {Empty}}
    \cup {With(BaseRow, "State", c) : c \in {Blank, State12}}
    \cup {With(BaseRow, "ZIP Code", c) : c \in {Empty, ZipPlus4, ZipABC, ZipLeadingZero}}

Restrict(row, columns) == [col \in columns |-> row[col]]
Extend(row, col, field) == [c \in DOMAIN row \cup {col} |-> IF c = col THEN field ELSE row[c]]

\* the headers: all ten columns, one or two of them missing, one more
CsvFiles ==
    UNION { { CsvFile(REQUIRED_COLUMNS, rows),
              CsvFile(REQUIRED_COLUMNS \ {"Company Name"},
                      [i \in DOMAIN rows |-> Restrict(rows[i], REQUIRED_COLUMNS \ {"Company Name"})]),
              CsvFile(REQUIRED_COLUMNS \ {"City", "State"},
                      [i \in DOMAIN rows |-> Restrict(rows[i], REQUIRED_COLUMNS \ {"City", "State"})]),
              CsvFile(REQUIRED_COLUMNS \cup {"Notes"},
                      [i \in DOMAIN rows |-> Extend(rows[i], "Notes", Blank)]) } :
            rows \in SeqsUpTo(CsvRows, MaxRows) }

\* the files one handler sees over its life
LifecycleFiles ==
    { Missing,
      CsvFile(REQUIRED_COLUMNS, <<BaseRow, With(BaseRow, "ZIP Code", ZipPlus4)>>),
      CsvFile(REQUIRED_COLUMNS, <<With(BaseRow, "Company Name", AcmePadded)>>),
      CsvFile(REQUIRED_COLUMNS, <<With(BaseRow, "City", Empty)>>),
      CsvFile(REQUIRED_COLUMNS, <<With(BaseRow, "State", State12)>>),
      CsvFile(REQUIRED_COLUMNS \ {"Company Name"},
              <<Restrict(BaseRow, REQUIRED_COLUMNS \ {"Company Name"})>>) }

HandlerIdle ==
    /\ suffix = ".csv"
    /\ disk = Missing
    /\ data = NoneData
    /\ load_result = NotCalled
    /\ ever_loaded = FALSE
    /\ records_result = NotCalled
    /\ save_result = NotCalled
    /\ output = Missing

\* CSVHandler(file_path): nothing is read, self.data is None
HandlerInit(files) ==
    /\ suffix \in {".csv", ".txt"}
    /\ disk \in files
    /\ data = NoneData
    /\ load_result = NotCalled
    /\ ever_loaded = FALSE
    /\ records_result = NotCalled
    /\ save_result = NotCalled
    /\ output = Missing

\* handler.read_and_validate(); records_result and save_result describe the
\* calls made since
ReadAndValidate ==
    LET outcome == ReadAndValidateOutcome(suffix, disk)
    IN  /\ load_result' = outcome
        /\ data' = IF outcome.kind = "returned" THEN Loaded(outcome.value) ELSE data
        /\ ever_loaded' = (ever_loaded \/ outcome.kind = "returned")
        /\ records_result' = NotCalled
        /\ save_result' = NotCalled
        /\ UNCHANGED <<suffix, disk, output>>

\* handler.get_company_records()
GetCompanyRecords ==
    /\ records_result' = GetCompanyRecordsOutcome(data)
    /\ UNCHANGED <<suffix, disk, data, load_result, ever_loaded, save_result, output>>

\* handler.save_processed_data(output_path)
SaveProcessedData ==
    /\ save_result' = SaveOutcome(data)
    /\ output' = IF data.is_none THEN output ELSE CsvFile(data.frame.columns, data.frame.rows)
    /\ UNCHANGED <<suffix, disk, data, load_result, ever_loaded, records_result>>

\* the file at file_path is rewritten or removed by its owner
ChangeFile(file) ==
    /\ disk # file
    /\ disk' = file
    /\ UNCHANGED <<suffix, data, load_result, ever_loaded, records_result, save_result, output>>

(***************************************************************************)
(* Specifications.                                                         *)
(***************************************************************************)
\* one CSVHandler over its life, the file changing between calls
Init == SearchIdle /\ CleanIdle /\ HandlerInit(LifecycleFiles)
Next ==
    \/ ReadAndValidate /\ UNCHANGED <<searchVars, cleanVars>>
    \/ GetCompanyRecords /\ UNCHANGED <<searchVars, cleanVars>>
    \/ SaveProcessedData /\ UNCHANGED <<searchVars, cleanVars>>
    \/ \E file \in LifecycleFiles : ChangeFile(file) /\ UNCHANGED <<searchVars, cleanVars>>
Spec == Init /\ [][Next]_vars

\* one CSVHandler on each CSV file
LoadInit == SearchIdle /\ CleanIdle /\ HandlerInit(CsvFiles \cup {Missing})
LoadNext ==
    \/ ReadAndValidate /\ UNCHANGED <<searchVars, cleanVars>>
    \/ GetCompanyRecords /\ UNCHANGED <<searchVars, cleanVars>>
    \/ SaveProcessedData /\ UNCHANGED <<searchVars, cleanVars>>
SpecLoad == LoadInit /\ [][LoadNext]_vars

\* validate_data_types and clean_data on each DataFrame
FramesInit == SearchIdle /\ CleanInit /\ HandlerIdle
FramesNext ==
    \/ ValidateDataTypesCall /\ UNCHANGED <<searchVars, handlerVars>>
    \/ CleanDataCall /\ UNCHANGED <<searchVars, handlerVars>>
    \/ CleanAgainCall /\ UNCHANGED <<searchVars, handlerVars>>
SpecClean == FramesInit /\ [][FramesNext]_vars

\* CompanySearcher
ClientInit == SearchInit /\ CleanIdle /\ HandlerIdle
ClientNext ==
    \/ CheckDomain /\ UNCHANGED <<cleanVars, handlerVars>>
    \/ \E company_name \in CompanyNames :
          SearchCompany(company_name) /\ UNCHANGED <<cleanVars, handlerVars>>
SpecSearch == ClientInit /\ [][ClientNext]_vars

(***************************************************************************)
(* Properties.                                                             *)
(***************************************************************************)
RequiredFields == {required_non_null[k] : k \in DOMAIN required_non_null}

\* C1 (under Spec): once a read_and_validate call has failed, the handler holds
\* no table: self.data is None, and the get_company_records and
\* save_processed_data calls made since have raised, whatever was loaded
\* before.
C1_FailedLoadLeavesNoTable ==
    load_result.kind = "raised" =>
        /\ data.is_none
        /\ records_result.kind # "returned"
        /\ save_result.kind # "returned"

\* C2 (under SpecLoad): in every row of the table a successful load stores,
\* and in every record made of it, the five required fields are neither
\* null nor empty.
C2_RequiredFieldsPresent ==
    /\ ~data.is_none =>
          \A i \in DOMAIN data.frame.rows : \A col \in RequiredFields :
              data.frame.rows[i][col] # None /\ data.frame.rows[i][col] # <<>>
    /\ records_result.kind = "returned" =>
          \A i \in DOMAIN records_result.value :
              LET r == records_result.value[i]
              IN  \A cell \in {r.company_name, r.address, r.city, r.state, r.zip_code} :
                      cell # None /\ cell # <<>>

\* C3 (under Spec): as long as no read_and_validate call has succeeded,
\* self.data is None, every get_company_records and save_processed_data call
\* raises ValueError, and no output file is written.
C3_UnloadedCallsRaise ==
    ~ever_loaded =>
        /\ data.is_none
        /\ records_result.kind \in {"not called", "raised"}
        /\ records_result.kind = "raised" => records_result.value = "ValueError"
        /\ save_result.kind \in {"not called", "raised"}
        /\ save_result.kind = "raised" => save_result.value = "ValueError"
        /\ ~output.exists

C3_Witness ==
    /\ ~ever_loaded
    /\ load_result.kind = "raised"
    /\ records_result.kind = "raised"
    /\ save_result.kind = "raised"

\* C4 (under SpecLoad): when the file holds a table with all ten required
\* columns and no null (empty field) in a required field, read_and_validate
\* succeeds, and get_company_records then returns one record per row of the
\* file, in the order of the rows.
SourceIsValid ==
    /\ disk.exists
    /\ suffix = ".csv"
    /\ REQUIRED_COLUMNS \subseteq disk.columns
    /\ \A i \in DOMAIN disk.rows : \A col \in RequiredFields : disk.rows[i][col] # <<>>

C4_ValidTableGivesOneRecordPerRow ==
    SourceIsValid =>
        /\ load_result.kind # "not called" => load_result.kind = "returned"
        /\ (load_result.kind = "returned" /\ records_result.kind # "not called") =>
              /\ records_result.kind = "returned"
              /\ Len(records_result.value) = Len(disk.rows)
              /\ \A i \in DOMAIN disk.rows :
                    records_result.value[i] = CompanyRecord(data.frame.rows[i])

\* IsAllowedDomain as specified: true exactly for a URL that parses with a
\* host, the lower-cased host containing no blocklisted domain
HasHost(url) == ~UrlParse(url).raised /\ UrlParse(url).netloc # <<>>
Blocklisted(url) ==
    \E excluded \in excluded_domains : Contains(Lower(UrlParse(url).netloc), excluded)
AllowedAsSpecified(url) == HasHost(url) /\ ~Blocklisted(url)

\* C5 (under SpecSearch): on a success status search_company returns the link
\* of the first entry of the result list that has a non-empty link passing
\* IsAllowedDomain, every entry before it lacking a link, having an empty
\* link or being blocklisted; without such an entry it returns None.
C5_FirstAllowedLink ==
    (response.kind = "answer" /\ response.status = HTTP_OK
        /\ search_result.kind # "not called") =>
        LET organic == IF response.has_organic THEN response.organic ELSE <<>>
            qualifying == {i \in DOMAIN organic :
                              /\ organic[i].has_link
                              /\ organic[i].link # <<>>
                              /\ AllowedAsSpecified(organic[i].link)}
        IN  /\ search_result.kind = "returned"
            /\ IF qualifying = {} THEN search_result.value = None
               ELSE /\ search_result.value = organic[MinOf(qualifying)].link
                    /\ \A j \in 1..(MinOf(qualifying) - 1) :
                          \/ ~organic[j].has_link
                          \/ organic[j].link = <<>>
                          \/ Blocklisted(organic[j].link)

\* C6 (under SpecSearch): _is_valid_domain returns False for a URL whose
\* lower-cased host contains a blocklisted domain, returns False for an
\* input that does not parse as a URL with a host, and returns True only for
\* a URL with a host that contains no blocklisted domain.
C6_DomainFilter ==
    checked_result.kind = "returned" =>
        /\ Blocklisted(checked_url) => checked_result.value = FALSE
        /\ ~HasHost(checked_url) => checked_result.value = FALSE
        /\ checked_result.value = TRUE => (HasHost(checked_url) /\ ~Blocklisted(checked_url))

\* C7 (under SpecSearch): search_company never raises; when the request fails
\* or answers with a status other than 200 it returns None, and it makes
\* exactly one request.
C7_SearchNeverRaises ==
    search_result.kind # "not called" =>
        /\ search_result.kind = "returned"
        /\ (response.kind = "exception" \/ response.status # HTTP_OK) =>
              search_result.value = None
        /\ posts = 1

\* C8 (under SpecClean): validate_data_types raises exactly when a required
\* field has a null, and the message then lists each required field that has
\* nulls, once, with its number of nulls, and no other field; ZIP codes that
\* fail the format check raise nothing.
NullRows(col) == {i \in DOMAIN df.rows : df.rows[i][col] = None}
Offenders == {col \in RequiredFields : NullRows(col) # {}}

C8_ContentErrorListsEveryNullField ==
    validation.kind # "not called" =>
        /\ validation.kind = "raised" <=> Offenders # {}
        /\ {validation.null_fields[k].col : k \in DOMAIN validation.null_fields} = Offenders
        /\ Len(validation.null_fields) = Cardinality(Offenders)
        /\ \A k \in DOMAIN validation.null_fields :
              validation.null_fields[k].count =
                  Cardinality(NullRows(validation.null_fields[k].col))

C8_Witness ==
    /\ validation.kind = "raised"
    /\ Len(validation.null_fields) >= 2
    /\ \E k \in DOMAIN validation.null_fields : validation.null_fields[k].count >= 2

\* C9 (under SpecClean): clean_data maps each ZIP Code to the leftmost 5
\* consecutive digits of the value, and to null when the value has no 5
\* consecutive digits; a null stays null. "94105-1234" and "9410512345" give
\* "94105", "ABC" and "941" give null.
FiveDigitRuns(s) == {k \in 1..(Len(s) - 4) : \A m \in k..(k + 4) : s[m] \in Digits}

C9_ZipIsFirstFiveDigits ==
    cleaned.kind = "returned" =>
        \A i \in DOMAIN df.rows :
            LET z == df.rows[i]["ZIP Code"]
                c == cleaned.value.rows[i]["ZIP Code"]
            IN  /\ z = None => c = None
                /\ (z # None /\ FiveDigitRuns(z) = {}) => c = None
                /\ (z # None /\ FiveDigitRuns(z) # {}) =>
                      c = SubSeq(z, MinOf(FiveDigitRuns(z)), MinOf(FiveDigitRuns(z)) + 4)
                /\ z \in {ZipPlus4, ZipTenDigits} => c = Zip94105
                /\ z \in {ZipABC, Zip941} => c = None

C9_Witness ==
    /\ cleaned.kind = "returned"
    /\ \E i \in DOMAIN df.rows :
          /\ df.rows[i]["ZIP Code"] = ZipInText
          /\ cleaned.value.rows[i]["ZIP Code"] = Zip94105

\* C10 (under SpecClean): cleaning a cleaned DataFrame gives the same
\* DataFrame again, and no call changes the DataFrame it is given.
C10_CleanIsIdempotentAndPure ==
    /\ [](recleaned.kind # "not called" => recleaned = cleaned)
    /\ [][df' = df]_vars

C10_Witness ==
    /\ recleaned.kind = "returned"
    /\ cleaned.value # df
    /\ \E i \in DOMAIN df.rows : df.rows[i]["Company Name"] = AcmeIndented

====
